---- MODULE Spec2Model ----
(***************************************************************************)
(* Voice interaction orchestrator of src/App.tsx: the command effect, the  *)
(* single-flight flag processingCommand, the market fetch, the speech sink *)
(* and the wake-word timer, as a state machine.                            *)
(*                                                                         *)
(* Text is a sequence of one-character strings, so that includes,          *)
(* toLowerCase and trim are computed on characters as the code does.       *)
(* A nullable value is a sequence: <<>> for null, <<v>> for the value v.   *)
(***************************************************************************)
EXTENDS Integers, Sequences, FiniteSets, TLC

----------------------------------------------------------------------------
(* Bounds of the model *)

\* longest transcript, in characters, the recogniser lets grow before a reset
MaxTranscriptLen == 19
\* timer handles the host can have allocated at once
MaxTimers == 2
\* market fetches the model lets be in flight at once
MaxInFlight == 2

----------------------------------------------------------------------------
(* String primitives *)

upperCase ==
  <<"A","B","C","D","E","F","G","H","I","J","K","L","M","N","O","P","Q","R","S","T","U","V","W","X","Y","Z">>

lowerCase ==
  <<"a","b","c","d","e","f","g","h","i","j","k","l","m","n","o","p","q","r","s","t","u","v","w","x","y","z">>

\* F applied to the value of e, which is computed once
Let(e, F(_)) == CHOOSE result \in {F(x) : x \in {e}} : TRUE

\* String.prototype.toLowerCase on one character
toLowerCaseChar(c) ==
  IF \E i \in 1..Len(upperCase) : upperCase[i] = c
  THEN lowerCase[CHOOSE i \in 1..Len(upperCase) : upperCase[i] = c]
  ELSE c

toLowerCase(text) ==
  Let(text, LAMBDA t : [i \in 1..Len(t) |-> toLowerCaseChar(t[i])])

\* String.prototype.includes
includes(text, part) ==
  Let(text, LAMBDA t :
    \E i \in 0..(Len(t) - Len(part)) : SubSeq(t, i + 1, i + Len(part)) = part)

\* String.prototype.trim
RECURSIVE trimStart(_)
trimStart(text) ==
  IF text # <<>> /\ Head(text) = " " THEN trimStart(Tail(text)) ELSE text

RECURSIVE trimEnd(_)
trimEnd(text) ==
  IF text # <<>> /\ text[Len(text)] = " "
  THEN trimEnd(SubSeq(text, 1, Len(text) - 1))
  ELSE text

trim(text) ==
  Let(text, LAMBDA t : Let(trimStart(t), LAMBDA t1 : trimEnd(t1)))

\* firstIncluded taking the last word of the list that occurs
lastIncluded(text, words) ==
  Let({i \in 1..Len(words) : includes(text, words[i])}, LAMBDA hits :
    IF hits = {} THEN 0 ELSE CHOOSE i \in hits : \A j \in hits : i >= j)

\* index of the first entry of the list words that text includes, 0 if none
firstIncluded(text, words) ==
  Let({i \in 1..Len(words) : includes(text, words[i])}, LAMBDA hits :
    IF hits = {} THEN 0 ELSE CHOOSE i \in hits : \A j \in hits : i <= j)

includesAny(text, words) == firstIncluded(text, words) # 0

----------------------------------------------------------------------------
(* Vocabulary *)

\* normalizeSymbol's symbolMap, as <<key, value>> pairs in source order
symbolMap ==
  << <<<<"b","i","t","c","o","i","n">>, "BTCUSDT">>,
     <<<<"b","t","c">>, "BTCUSDT">>,
     <<<<"e","t","h","e","r","e","u","m">>, "ETHUSDT">>,
     <<<<"e","t","h">>, "ETHUSDT">>,
     <<<<"b","i","n","a","n","c","e"," ","c","o","i","n">>, "BNBUSDT">>,
     <<<<"b","n","b">>, "BNBUSDT">>,
     <<<<"c","a","r","d","a","n","o">>, "ADAUSDT">>,
     <<<<"a","d","a">>, "ADAUSDT">>,
     <<<<"s","o","l","a","n","a">>, "SOLUSDT">>,
     <<<<"s","o","l">>, "SOLUSDT">>,
     <<<<"r","i","p","p","l","e">>, "XRPUSDT">>,
     <<<<"x","r","p">>, "XRPUSDT">>,
     <<<<"d","o","g","e","c","o","i","n">>, "DOGEUSDT">>,
     <<<<"d","o","g","e">>, "DOGEUSDT">>,
     <<<<"p","o","l","k","a","d","o","t">>, "DOTUSDT">>,
     <<<<"d","o","t">>, "DOTUSDT">>,
     <<<<"a","v","a","l","a","n","c","h","e">>, "AVAXUSDT">>,
     <<<<"a","v","a","x">>, "AVAXUSDT">>,
     <<<<"s","h","i","b","a"," ","i","n","u">>, "SHIBUSDT">>,
     <<<<"s","h","i","b">>, "SHIBUSDT">>,
     <<<<"l","i","t","e","c","o","i","n">>, "LTCUSDT">>,
     <<<<"l","t","c">>, "LTCUSDT">>,
     <<<<"c","h","a","i","n","l","i","n","k">>, "LINKUSDT">>,
     <<<<"l","i","n","k">>, "LINKUSDT">>,
     <<<<"p","o","l","y","g","o","n">>, "MATICUSDT">>,
     <<<<"m","a","t","i","c">>, "MATICUSDT">> >>

null == <<>>

\* symbolMap is an object literal: besides its own keys, symbolMap[key] finds
\* the properties inherited from Object.prototype.  Those whose names are in
\* lower case, with the text their value has in the request's URL
objectPrototype ==
  << <<<<"c","o","n","s","t","r","u","c","t","o","r">>,
       "function Object() { [native code] }">>,
     <<<<"_","_","p","r","o","t","o","_","_">>, "[object Object]">> >>

\* normalizeSymbol: symbolMap[normalizedInput] || null, as <<symbol>> or null
normalizeSymbol(input) ==
  Let(trim(toLowerCase(input)), LAMBDA normalizedInput :
    Let({i \in 1..Len(symbolMap) : symbolMap[i][1] = normalizedInput}, LAMBDA hits :
      Let({i \in 1..Len(objectPrototype) : objectPrototype[i][1] = normalizedInput},
          LAMBDA inherited :
        IF hits # {} THEN <<symbolMap[CHOOSE i \in hits : TRUE][2]>>
        ELSE IF inherited # {}
          THEN <<objectPrototype[CHOOSE i \in inherited : TRUE][2]>>
        ELSE null)))

\* the cryptoKeywords list of processCommand, in source order
cryptoKeywords ==
  << <<"b","i","t","c","o","i","n">>,
     <<"b","t","c">>,
     <<"e","t","h","e","r","e","u","m">>,
     <<"e","t","h">>,
     <<"b","i","n","a","n","c","e"," ","c","o","i","n">>,
     <<"b","n","b">>,
     <<"c","a","r","d","a","n","o">>,
     <<"a","d","a">>,
     <<"s","o","l","a","n","a">>,
     <<"s","o","l">>,
     <<"r","i","p","p","l","e">>,
     <<"x","r","p">>,
     <<"d","o","g","e","c","o","i","n">>,
     <<"d","o","g","e">>,
     <<"p","o","l","k","a","d","o","t">>,
     <<"d","o","t">>,
     <<"a","v","a","l","a","n","c","h","e">>,
     <<"a","v","a","x">>,
     <<"s","h","i","b","a"," ","i","n","u">>,
     <<"s","h","i","b">>,
     <<"l","i","t","e","c","o","i","n">>,
     <<"l","t","c">>,
     <<"c","h","a","i","n","l","i","n","k">>,
     <<"l","i","n","k">>,
     <<"p","o","l","y","g","o","n">>,
     <<"m","a","t","i","c">> >>

\* the wake word
wakeWord ==
  << <<"j","a","r","v","i","s">> >>

\* the keywords processCommand tests before the crypto keywords, in source order
conversationGate ==
  << <<"w","h","o"," ","a","r","e"," ","y","o","u">>,
     <<"w","h","a","t"," ","a","r","e"," ","y","o","u">>,
     <<"h","o","w"," ","a","r","e"," ","y","o","u">>,
     <<"w","h","a","t"," ","c","a","n"," ","y","o","u"," ","d","o">>,
     <<"y","o","u","r"," ","n","a","m","e">>,
     <<"w","h","a","t"," ","t","i","m","e">>,
     <<"w","h","a","t"," ","d","a","y">>,
     <<"w","e","a","t","h","e","r">>,
     <<"j","o","k","e">>,
     <<"f","u","n","n","y">>,
     <<"g","o","o","d","b","y","e">>,
     <<"b","y","e">>,
     <<"s","e","e"," ","y","o","u">> >>

\* processCommand's branches after the crypto loop
greetingKeywords ==
  << <<"h","e","l","l","o"," ","j","a","r","v","i","s">>,
     <<"h","i"," ","j","a","r","v","i","s">>,
     <<"h","e","l","l","o">>,
     <<"h","i">> >>

\* thanks, in processCommand and in handleConversation
thanksKeywords ==
  << <<"t","h","a","n","k"," ","y","o","u">>,
     <<"t","h","a","n","k","s">> >>

\* help branch of processCommand
helpKeywords ==
  << <<"h","e","l","p">> >>

\* stop branch of processCommand
stopKeywords ==
  << <<"s","t","o","p"," ","l","i","s","t","e","n","i","n","g">> >>

\* handleConversation's keyword groups
identityKeywords ==
  << <<"w","h","o"," ","a","r","e"," ","y","o","u">>,
     <<"w","h","a","t"," ","a","r","e"," ","y","o","u">>,
     <<"y","o","u","r"," ","n","a","m","e">> >>

\* second half of the identity test: 'who' together with 'jarvis'
whoKeyword ==
  << <<"w","h","o">> >>

\* wellbeing
wellbeingKeywords ==
  << <<"h","o","w"," ","a","r","e"," ","y","o","u">>,
     <<"h","o","w"," ","d","o"," ","y","o","u"," ","f","e","e","l">>,
     <<"h","o","w","'","s"," ","i","t"," ","g","o","i","n","g">> >>

\* capabilities
capabilitiesKeywords ==
  << <<"w","h","a","t"," ","c","a","n"," ","y","o","u"," ","d","o">>,
     <<"y","o","u","r"," ","c","a","p","a","b","i","l","i","t","i","e","s">>,
     <<"h","e","l","p"," ","m","e">> >>

\* time and date
timeKeywords ==
  << <<"w","h","a","t"," ","t","i","m","e">>,
     <<"w","h","a","t"," ","d","a","y">>,
     <<"w","h","a","t"," ","i","s"," ","t","h","e"," ","d","a","t","e">> >>

\* weather
weatherKeywords ==
  << <<"w","e","a","t","h","e","r">>,
     <<"t","e","m","p","e","r","a","t","u","r","e">> >>

\* joke
jokeKeywords ==
  << <<"j","o","k","e">>,
     <<"f","u","n","n","y">> >>

\* farewell
farewellKeywords ==
  << <<"g","o","o","d","b","y","e">>,
     <<"b","y","e">>,
     <<"s","e","e"," ","y","o","u">> >>

\* what the recogniser can append to the transcript in one event
Phrases ==
  { <<"B","i","t","c","o","i","n">>,
    <<"d","o","g","e","c","o","i","n">>,
    <<"h","o","w"," ","a","r","e"," ","y","o","u">>,
    <<"t","h","a","n","k","s">>,
    <<"j","a","r","v","i","s">>,
    <<"m","o","o","n","r","o","c","k","e","t">>,
    <<"s","t","o","p"," ","l","i","s","t","e","n","i","n","g">>,
    <<"t","h","a","n","k","s"," ","b","t","c">> }

----------------------------------------------------------------------------
(* The market gateway.  Decimal quantities are integers in hundredths.     *)

\* body of GET /api/v3/ticker/24hr for a symbol
ticker24hr(symbol) ==
  IF symbol = "BTCUSDT"
  THEN [priceChange |-> 50000, priceChangePercent |-> 77, lastPrice |-> 6500000,
        volume |-> 1500000000, highPrice |-> 6600000, lowPrice |-> 6400000]
  ELSE [priceChange |-> -2, priceChangePercent |-> -613, lastPrice |-> 31,
        volume |-> 900000000, highPrice |-> 34, lowPrice |-> 30]

\* body of GET /api/v3/klines for a symbol: rows
\* <<openTime, open, high, low, close, volume, closeTime>>
klines(symbol) ==
  IF symbol = "BTCUSDT"
  THEN << <<1, 6400000, 6550000, 6390000, 6450000, 1200000000, 2>>,
          <<2, 6450000, 6600000, 6400000, 6500000, 1500000000, 3>> >>
  ELSE << <<1, 33, 34, 32, 33, 800000000, 2>>,
          <<2, 33, 34, 30, 31, 900000000, 3>> >>

\* data.map(item => ({time: item[0], price: parseFloat(item[4])}))
formatPrices(data) ==
  Let(data, LAMBDA rows :
    [i \in 1..Len(rows) |-> [time |-> rows[i][1], price |-> rows[i][5]]])

\* An error message is <<text, argument>>.
\* err.message of the error thrown on a non-2xx ticker response
failedToFetchData(normalizedSymbol) == <<"Failed to fetch data for", <<normalizedSymbol>>>>
\* err.message of the error thrown for an alias normalizeSymbol does not know
couldNotRecognize(symbol) == <<"Could not recognize cryptocurrency:", symbol>>
\* err.message of the TypeError a rejected fetch() throws
networkError == <<"Failed to fetch", <<>>>>

\* how a fetch can end
TickerOutcomes == {"ok", "http", "network"}
KlinesOutcomes == {"ok", "http", "network"}

----------------------------------------------------------------------------
(* State *)

VARIABLES
  browserSupportsSpeechRecognition, \* the host has the recogniser
  mounted,            \* the mount effects have run
  micOn,              \* the recogniser's input stream is started
  transcript,         \* useSpeechRecognition().transcript
  segments,           \* history: the phrases of transcript, each with the
                      \* value of processingCommand when it arrived
  autoListening, listening, cryptoData, historicalPrices, loading, speaking,
  error, wakeWordDetected, lastInteraction,   \* useState cells
  wakeWordTimer,      \* useRef: handle of the last timer armed, 0 for null
  processingCommand,  \* useRef: the single-flight flag
  timers,             \* handles of the timers pending in the host
  fetches,            \* fetchCryptoData calls suspended at an await
  utterance,          \* the utterance the speech sink is rendering
  cycleUtterances,    \* history: utterances requested since the flag was set
  log,                \* history: what the command effect did in the last step
  calls               \* history: the calls the last step made on the host
                      \* (recogniser, timers, network, speech), in order

vars ==
  << browserSupportsSpeechRecognition, mounted, micOn, transcript, segments,
     autoListening, listening, cryptoData, historicalPrices, loading, speaking,
     error, wakeWordDetected, lastInteraction, wakeWordTimer,
     processingCommand, timers, fetches, utterance, cycleUtterances, log,
     calls >>

\* the state as one record, so that a handler and the effects it triggers
\* compose; ok is FALSE when a bound of the model was exceeded
Cur ==
  [ browserSupportsSpeechRecognition |-> browserSupportsSpeechRecognition,
    mounted |-> mounted, micOn |-> micOn, transcript |-> transcript,
    segments |-> segments, autoListening |-> autoListening,
    listening |-> listening, cryptoData |-> cryptoData,
    historicalPrices |-> historicalPrices, loading |-> loading,
    speaking |-> speaking, error |-> error,
    wakeWordDetected |-> wakeWordDetected, lastInteraction |-> lastInteraction,
    wakeWordTimer |-> wakeWordTimer, processingCommand |-> processingCommand,
    timers |-> timers, fetches |-> fetches, utterance |-> utterance,
    cycleUtterances |-> cycleUtterances, log |-> <<>>, calls |-> <<>>,
    ok |-> TRUE ]

\* the step calls a function of the host
called(s, name) == [s EXCEPT !.calls = Append(@, name)]

\* Math.random picks among the equivalent phrasings of a reply
replyVariants(topic) ==
  IF topic \in {"wellbeing", "thanks", "farewell"} THEN 3
  ELSE IF topic = "joke" THEN 4
  ELSE 1

\* the next state is the record s; a reply with several phrasings gets one
Commit(s) ==
  /\ s.ok
  /\ browserSupportsSpeechRecognition' = s.browserSupportsSpeechRecognition
  /\ mounted' = s.mounted
  /\ micOn' = s.micOn
  /\ transcript' = s.transcript
  /\ segments' = s.segments
  /\ autoListening' = s.autoListening
  /\ listening' = s.listening
  /\ cryptoData' = s.cryptoData
  /\ historicalPrices' = s.historicalPrices
  /\ loading' = s.loading
  /\ speaking' = s.speaking
  /\ error' = s.error
  /\ wakeWordDetected' = s.wakeWordDetected
  /\ lastInteraction' = s.lastInteraction
  /\ wakeWordTimer' = s.wakeWordTimer
  /\ processingCommand' = s.processingCommand
  /\ timers' = s.timers
  /\ fetches' = s.fetches
  /\ cycleUtterances' = s.cycleUtterances
  /\ log' = s.log
  /\ calls' = s.calls
  /\ IF s.utterance # <<>> /\ s.utterance[1].variant = -1
     THEN \E r \in 0..(replyVariants(s.utterance[1].topic) - 1) :
            utterance' = <<[s.utterance[1] EXCEPT !.variant = r]>>
     ELSE utterance' = s.utterance

----------------------------------------------------------------------------
(* The speech sink *)

\* 'speechSynthesis' in window
speechSynthesisInWindow == TRUE

\* what is handed to the sink: which text, about what.  variant is the
\* phrasing chosen among equivalent ones, -1 until Math.random has chosen
Utterance(kind, topic, symbol, keyword, message, data, variant) ==
  [kind |-> kind, topic |-> topic, symbol |-> symbol, keyword |-> keyword,
   message |-> message, data |-> data, variant |-> variant]

\* speakText: cancel whatever the sink renders, then speak u
speakText(s, u) ==
  IF speechSynthesisInWindow
  THEN [s EXCEPT !.speaking = TRUE,
                 !.utterance = <<u>>,
                 !.cycleUtterances = @ + 1,
                 !.calls = Append(@, "speak")]
  ELSE s

\* utterance.onend
onend(s) ==
  [s EXCEPT !.speaking = FALSE, !.processingCommand = FALSE, !.utterance = <<>>]

\* Math.abs
abs(x) == IF x < 0 THEN -x ELSE x

\* the percent change under which the market is called stable: 0.5, in
\* hundredths of a percent
stableBelow == 50

\* trend with the test of the threshold made inclusive
trendStableAtThreshold(data) ==
  IF abs(data.priceChangePercent) <= stableBelow THEN "relatively stable"
  ELSE IF data.priceChange > 0 THEN "upward"
  ELSE "downward"

\* the trend of speakAnalysis: from the sign of priceChange, overridden when
\* the percent change is small
trend(data) ==
  IF abs(data.priceChangePercent) < stableBelow THEN "relatively stable"
  ELSE IF data.priceChange > 0 THEN "upward"
  ELSE "downward"

\* the sentiment of speakAnalysis
sentiment(data) ==
  IF abs(data.priceChangePercent) < stableBelow THEN "neutral"
  ELSE IF data.priceChange > 0 THEN "positive"
  ELSE "negative"

\* hundredths of a percent
significantAbove == 500

cautionAdvice ==
  "Be cautious as this significant upward movement might be followed by a correction."

opportunityAdvice ==
  "This significant drop might present a buying opportunity, but be aware that the downtrend might continue."

consolidationAdvice ==
  "The market appears to be consolidating. This might be a period of accumulation before the next significant move."

strategyAdvice ==
  "Consider your investment strategy based on your risk tolerance and long-term outlook."

\* generateAdvice with the test of the threshold made inclusive
generateAdviceAtThreshold(priceChangePercent, trendSpoken) ==
  IF abs(priceChangePercent) >= significantAbove
  THEN IF priceChangePercent > 0 THEN cautionAdvice ELSE opportunityAdvice
  ELSE IF trendSpoken = "relatively stable" THEN consolidationAdvice
  ELSE strategyAdvice

\* generateAdvice: the closing sentence of the narrative
generateAdvice(priceChangePercent, trendSpoken) ==
  IF abs(priceChangePercent) > significantAbove
  THEN IF priceChangePercent > 0 THEN cautionAdvice ELSE opportunityAdvice
  ELSE IF trendSpoken = "relatively stable" THEN consolidationAdvice
  ELSE strategyAdvice

\* the narrative speakAnalysis composes, as <<text, <<trend, sentiment>>,
\* advice>>
analysis(data) ==
  <<"Here's my analysis for", <<trend(data), sentiment(data)>>,
    generateAdvice(data.priceChangePercent, trend(data))>>

\* speakAnalysis: compose the narrative for a snapshot, then speak it
speakAnalysis(s, data) ==
  Let(data, LAMBDA d :
    speakText(called(s, "analysis"),
              Utterance("analysis", "", d.symbol, <<>>, analysis(d), <<d>>, 0)))

----------------------------------------------------------------------------
(* Conversation *)

\* the branch of handleConversation's cascade that text takes
conversationTopic(text) ==
  LET lowerText == toLowerCase(text)
  IN IF \/ includesAny(lowerText, identityKeywords)
        \/ (includesAny(lowerText, whoKeyword) /\ includesAny(lowerText, wakeWord))
       THEN "identity"
     ELSE IF includesAny(lowerText, wellbeingKeywords) THEN "wellbeing"
     ELSE IF includesAny(lowerText, capabilitiesKeywords) THEN "capabilities"
     ELSE IF includesAny(lowerText, timeKeywords) THEN "time"
     ELSE IF includesAny(lowerText, weatherKeywords) THEN "weather"
     ELSE IF includesAny(lowerText, jokeKeywords) THEN "joke"
     ELSE IF includesAny(lowerText, thanksKeywords) THEN "thanks"
     ELSE IF includesAny(lowerText, farewellKeywords) THEN "farewell"
     ELSE "unrecognized"

\* the flag is set: a cycle begins
setProcessingCommand(s) ==
  [s EXCEPT !.processingCommand = TRUE, !.cycleUtterances = 0]

handleConversation(s, text) ==
  LET topic == conversationTopic(text)
      s1 == [setProcessingCommand(s) EXCEPT !.speaking = TRUE,
                                            !.lastInteraction = "conversation"]
  IN speakText(s1, Utterance("conversation", topic, "", <<>>, <<>>, <<>>,
                             IF replyVariants(topic) > 1 THEN -1 ELSE 0))

\* resetTranscript of react-speech-recognition
resetTranscript(s) == [s EXCEPT !.transcript = <<>>, !.segments = <<>>]

----------------------------------------------------------------------------
(* The market fetch *)

\* fetchCryptoDataCatch with the apology left out: the failure is shown in the
\* banner only
fetchCryptoDataCatchSilent(s, symbol, message) ==
  resetTranscript([s EXCEPT !.error = <<message>>, !.loading = FALSE])

\* the catch and finally blocks of fetchCryptoData, then the rest of
\* processCommand after its await
fetchCryptoDataCatch(s, symbol, message) ==
  Let([s EXCEPT !.error = <<message>>], LAMBDA s1 :
    Let(speakText(s1, Utterance("apology", "", "", symbol, message, <<>>, 0)),
        LAMBDA s2 : resetTranscript([s2 EXCEPT !.loading = FALSE])))

\* fetchCryptoData up to its first await
fetchCryptoData(s, symbol) ==
  Let([s EXCEPT !.loading = TRUE, !.error = null, !.speaking = TRUE,
                !.lastInteraction = "crypto"], LAMBDA s1 :
    Let(normalizeSymbol(symbol), LAMBDA normalizedSymbol :
      IF normalizedSymbol = null
      THEN fetchCryptoDataCatch(s1, symbol, couldNotRecognize(symbol))
      ELSE [s1 EXCEPT !.fetches = Append(@, [keyword |-> symbol,
                                             symbol |-> normalizedSymbol[1],
                                             stage |-> "ticker",
                                             data |-> <<>>]),
                      !.calls = Append(@, "fetch ticker"),
                      !.ok = @ /\ Len(s1.fetches) < MaxInFlight]))

removeAt(seq, i) == SubSeq(seq, 1, i - 1) \o SubSeq(seq, i + 1, Len(seq))

\* fetchCryptoDataEnd with the finally block left out
fetchCryptoDataEndStillLoading(s, i) ==
  Let(speakAnalysis(s, s.fetches[i].data[1]), LAMBDA s1 :
    resetTranscript([s1 EXCEPT !.fetches = removeAt(@, i)]))

\* the end of fetchCryptoData's try block, its finally block, then the rest of
\* processCommand after its await
fetchCryptoDataEnd(s, i) ==
  Let(speakAnalysis(s, s.fetches[i].data[1]), LAMBDA s1 :
    resetTranscript([s1 EXCEPT !.loading = FALSE, !.fetches = removeAt(@, i)]))

\* fetchHistoricalPrices up to its first await, called with the keyword
fetchHistoricalPrices(s, i) ==
  IF normalizeSymbol(s.fetches[i].keyword) = null
  THEN fetchCryptoDataEnd(s, i)
  ELSE [s EXCEPT !.fetches[i].stage = "klines",
                 !.calls = Append(@, "fetch klines")]

\* tickerResponse that speaks the analysis before the history fetch instead
\* of after it
tickerResponseSpeaksFirst(s, i, outcome) ==
  Let(s.fetches[i], LAMBDA f :
    IF outcome = "ok"
    THEN Let([symbol |-> f.symbol] @@ ticker24hr(f.symbol), LAMBDA data :
           Let([s EXCEPT !.cryptoData = <<data>>, !.fetches[i].data = <<data>>,
                         !.calls = Append(@, "setCryptoData")],
               LAMBDA s1 : fetchHistoricalPrices(speakAnalysis(s1, data), i)))
    ELSE Let([s EXCEPT !.fetches = removeAt(@, i)], LAMBDA s1 :
           fetchCryptoDataCatch(s1, f.keyword,
                                IF outcome = "http" THEN failedToFetchData(f.symbol)
                                ELSE networkError)))

\* tickerResponse with a catch block that also drops the stored snapshot
tickerResponseDropsSnapshot(s, i, outcome) ==
  Let(s.fetches[i], LAMBDA f :
    IF outcome = "ok"
    THEN Let([symbol |-> f.symbol] @@ ticker24hr(f.symbol), LAMBDA data :
           Let([s EXCEPT !.cryptoData = <<data>>, !.fetches[i].data = <<data>>,
                         !.calls = Append(@, "setCryptoData")],
               LAMBDA s1 : fetchHistoricalPrices(s1, i)))
    ELSE Let([s EXCEPT !.fetches = removeAt(@, i), !.cryptoData = null],
             LAMBDA s1 :
           fetchCryptoDataCatch(s1, f.keyword,
                                IF outcome = "http" THEN failedToFetchData(f.symbol)
                                ELSE networkError)))

\* fetchCryptoData resumed by the ticker response
tickerResponse(s, i, outcome) ==
  Let(s.fetches[i], LAMBDA f :
    IF outcome = "ok"
    THEN Let([symbol |-> f.symbol] @@ ticker24hr(f.symbol), LAMBDA data :
           Let([s EXCEPT !.cryptoData = <<data>>, !.fetches[i].data = <<data>>,
                         !.calls = Append(@, "setCryptoData")],
               LAMBDA s1 : fetchHistoricalPrices(s1, i)))
    ELSE Let([s EXCEPT !.fetches = removeAt(@, i)], LAMBDA s1 :
           fetchCryptoDataCatch(s1, f.keyword,
                                IF outcome = "http" THEN failedToFetchData(f.symbol)
                                ELSE networkError)))

\* fetchHistoricalPrices resumed by the klines response: any failure is caught
\* and logged
fetchHistoricalPricesEnd(s, i, outcome) ==
  IF outcome = "ok"
  THEN Let(normalizeSymbol(s.fetches[i].keyword), LAMBDA normalizedSymbol :
         Let(formatPrices(klines(normalizedSymbol[1])), LAMBDA prices :
           [s EXCEPT !.historicalPrices = prices]))
  ELSE s

\* klinesResponse with a fetchHistoricalPrices that does not catch: the
\* failure reaches the catch block of fetchCryptoData
klinesResponseUncaught(s, i, outcome) ==
  IF outcome = "ok"
  THEN Let(fetchHistoricalPricesEnd(s, i, outcome), LAMBDA s1 :
         fetchCryptoDataEnd(s1, i))
  ELSE Let([s EXCEPT !.fetches = removeAt(@, i)], LAMBDA s1 :
         fetchCryptoDataCatch(s1, s.fetches[i].keyword,
           <<"Failed to fetch historical data for", <<s.fetches[i].symbol>>>>))

\* fetchCryptoData resumed by the klines response
klinesResponse(s, i, outcome) ==
  Let(fetchHistoricalPricesEnd(s, i, outcome), LAMBDA s1 : fetchCryptoDataEnd(s1, i))

----------------------------------------------------------------------------
(* The command effect *)

\* what one run of processCommand did: the text it classified, the command
\* it dispatched ("none" when the cascade fell through), the keyword that
\* selected it, the topic of a conversational reply, and whether that keyword
\* occurs in a phrase that arrived while the flag was clear
LogEntry(text, command, trigger, reply, fresh) ==
  [text |-> text, command |-> command, trigger |-> trigger, reply |-> reply,
   fresh |-> fresh]

logged(s, text, command, trigger) ==
  [s EXCEPT !.log = Append(@, LogEntry(text, command, trigger,
       IF command = "conversation" THEN conversationTopic(text) ELSE "",
       \E i \in 1..Len(s.segments) :
          /\ ~s.segments[i].busy
          /\ includes(toLowerCase(s.segments[i].text), trigger)))]

\* the wake-word block without clearTimeout
wakeWordBlockWithoutClear(s) ==
  LET free == (1..MaxTimers) \ s.timers
      id == IF free = {} THEN 0 ELSE CHOOSE i \in free : \A j \in free : i <= j
  IN [s EXCEPT !.wakeWordDetected = TRUE,
               !.timers = IF id = 0 THEN @ ELSE @ \cup {id},
               !.wakeWordTimer = id,
               !.calls = Append(@, "setTimeout"),
               !.ok = @ /\ id # 0]

\* the wake-word block: clearTimeout on the handle held, then setTimeout
wakeWordBlock(s) ==
  LET pending == IF s.wakeWordTimer # 0 THEN s.timers \ {s.wakeWordTimer}
                 ELSE s.timers
      free == (1..MaxTimers) \ pending
      id == IF free = {} THEN 0 ELSE CHOOSE i \in free : \A j \in free : i <= j
  IN [s EXCEPT !.wakeWordDetected = TRUE,
               !.timers = IF id = 0 THEN pending ELSE pending \cup {id},
               !.wakeWordTimer = id,
               !.calls = @ \o (IF s.wakeWordTimer = 0 THEN <<>>
                               ELSE IF s.wakeWordTimer \in s.timers
                                 THEN <<"clearTimeout pending">>
                               ELSE <<"clearTimeout expired">>)
                           \o <<"setTimeout">>,
               !.ok = @ /\ id # 0]

\* the stop-listening branch of processCommand
stopListeningCommand(s) ==
  LET s1 == [setProcessingCommand(s) EXCEPT !.lastInteraction = "conversation",
                                            !.autoListening = FALSE,
                                            !.micOn = FALSE,
                                            !.listening = FALSE,
                                            !.calls = Append(@, "stopListening")]
  IN resetTranscript(
       speakText(s1, Utterance("command", "stop", "", <<>>, <<>>, <<>>, 0)))

\* a branch of processCommand that speaks a fixed reply
fixedReply(s, topic) ==
  LET s1 == [setProcessingCommand(s) EXCEPT !.lastInteraction = "conversation"]
  IN resetTranscript(
       speakText(s1, Utterance("command", topic, "", <<>>, <<>>, <<>>, 0)))

\* the cascade of processCommand, after the wake-word block
commandCascade(s1, lowerTranscript) ==
  Let(firstIncluded(lowerTranscript, conversationGate), LAMBDA gate :
    Let(firstIncluded(lowerTranscript, cryptoKeywords), LAMBDA k :
      IF gate # 0
        THEN resetTranscript(handleConversation(
               logged(s1, lowerTranscript, "conversation", conversationGate[gate]),
               lowerTranscript))
      ELSE IF k # 0
        THEN fetchCryptoData(
               setProcessingCommand(
                 logged(s1, lowerTranscript, "crypto", cryptoKeywords[k])),
               cryptoKeywords[k])
      ELSE IF includesAny(lowerTranscript, greetingKeywords)
        THEN fixedReply(logged(s1, lowerTranscript, "greeting",
                 greetingKeywords[firstIncluded(lowerTranscript, greetingKeywords)]),
               "greeting")
      ELSE IF includesAny(lowerTranscript, thanksKeywords)
        THEN fixedReply(logged(s1, lowerTranscript, "thanks",
                 thanksKeywords[firstIncluded(lowerTranscript, thanksKeywords)]),
               "thanks")
      ELSE IF includesAny(lowerTranscript, helpKeywords)
        THEN fixedReply(logged(s1, lowerTranscript, "help", helpKeywords[1]), "help")
      ELSE IF includesAny(lowerTranscript, stopKeywords)
        THEN stopListeningCommand(logged(s1, lowerTranscript, "stop", stopKeywords[1]))
      ELSE logged(s1, lowerTranscript, "none", <<>>)))

\* processCommand on the transcript of the render the effect belongs to
processCommand(s, renderedTranscript) ==
  Let(toLowerCase(renderedTranscript), LAMBDA lowerTranscript :
    Let(IF includesAny(lowerTranscript, wakeWord) THEN wakeWordBlock(s) ELSE s,
        LAMBDA s1 : commandCascade(s1, lowerTranscript)))

\* the guards of the command effect with the wake word required
commandEffectRunsAfterWakeWord(s, rendered) ==
  /\ rendered.listening
  /\ rendered.transcript # <<>>
  /\ ~s.processingCommand
  /\ rendered.wakeWordDetected

\* the guards of the command effect without the test of the flag
commandEffectRunsWithoutFlag(s, rendered) ==
  /\ rendered.listening
  /\ rendered.transcript # <<>>

\* the guards of the command effect: listening and transcript are those of
\* the render, the flag is read from the ref
commandEffectRuns(s, rendered) ==
  /\ rendered.listening
  /\ rendered.transcript # <<>>
  /\ ~s.processingCommand

commandEffect(s, rendered) ==
  IF commandEffectRuns(s, rendered)
  THEN processCommand(s, rendered.transcript)
  ELSE s

\* the auto-listen effect without the test of the host's support
autoListenEffectAnyHost(s, rendered, atMount) ==
  LET s1 == IF atMount THEN s
            ELSE [s EXCEPT !.micOn = FALSE, !.calls = Append(@, "stopListening")]
  IN IF rendered.autoListening
     THEN [s1 EXCEPT !.micOn = TRUE, !.listening = TRUE,
                     !.calls = Append(@, "startListening")]
     ELSE s1

\* the auto-listen effect: its cleanup (not at mount), then its body
autoListenEffect(s, rendered, atMount) ==
  LET s1 == IF atMount THEN s
            ELSE [s EXCEPT !.micOn = FALSE, !.calls = Append(@, "stopListening")]
  IN IF rendered.autoListening /\ rendered.browserSupportsSpeechRecognition
     THEN [s1 EXCEPT !.micOn = TRUE, !.listening = TRUE,
                     !.calls = Append(@, "startListening")]
     ELSE s1

autoListenDeps(s) == <<s.autoListening, s.browserSupportsSpeechRecognition>>
commandDeps(s) == <<s.transcript, s.listening, s.wakeWordDetected>>

\* the effects of the render of s, which follows the render of prev, in the
\* order of their declaration; their updates are rendered in turn
RECURSIVE runEffects(_, _, _)
runEffects(prev, s, atMount) ==
  Let(IF atMount \/ autoListenDeps(s) # autoListenDeps(prev)
      THEN autoListenEffect(s, s, atMount) ELSE s, LAMBDA s1 :
    Let(IF atMount \/ commandDeps(s) # commandDeps(prev)
        THEN commandEffect(s1, s) ELSE s1, LAMBDA s2 :
      IF autoListenDeps(s2) = autoListenDeps(s) /\ commandDeps(s2) = commandDeps(s)
      THEN s2
      ELSE runEffects(s, s2, FALSE)))

\* a handler has produced the state handled from the state Cur: the effects
\* run, and the result is the next state
Step(handled, atMount) ==
  \E before \in {Cur} : \E after \in {handled} :
    \E settled \in {runEffects(before, after, atMount)} : Commit(settled)

----------------------------------------------------------------------------
(* Operations *)

\* toggleListening that starts listening without resetTranscript
toggleListeningKeepsTranscript(s) ==
  IF s.listening
  THEN [s EXCEPT !.micOn = FALSE, !.listening = FALSE, !.autoListening = FALSE,
                 !.calls = Append(@, "stopListening")]
  ELSE [s EXCEPT !.micOn = TRUE, !.listening = TRUE, !.autoListening = TRUE,
                 !.calls = Append(@, "startListening")]

\* toggleListening that also abandons the market fetch in flight when it
\* stops listening
toggleListeningCancelsFetch(s) ==
  IF s.listening
  THEN [s EXCEPT !.micOn = FALSE, !.listening = FALSE, !.autoListening = FALSE,
                 !.calls = Append(@, "stopListening"),
                 !.fetches = <<>>, !.loading = FALSE]
  ELSE resetTranscript([s EXCEPT !.micOn = TRUE, !.listening = TRUE,
                                 !.autoListening = TRUE,
                                 !.calls = Append(@, "startListening")])

\* toggleListening that also resets the flag when it stops listening
toggleListeningClearsFlag(s) ==
  IF s.listening
  THEN [s EXCEPT !.micOn = FALSE, !.listening = FALSE, !.autoListening = FALSE,
                 !.calls = Append(@, "stopListening"),
                 !.processingCommand = FALSE]
  ELSE resetTranscript([s EXCEPT !.micOn = TRUE, !.listening = TRUE,
                                 !.autoListening = TRUE,
                                 !.calls = Append(@, "startListening")])

\* toggleListening
toggleListening(s) ==
  IF s.listening
  THEN [s EXCEPT !.micOn = FALSE, !.listening = FALSE, !.autoListening = FALSE,
                 !.calls = Append(@, "stopListening")]
  ELSE resetTranscript([s EXCEPT !.micOn = TRUE, !.listening = TRUE,
                                 !.autoListening = TRUE,
                                 !.calls = Append(@, "startListening")])

\* the recogniser appends a phrase to the transcript
appendPhrase(s, phrase) ==
  [s EXCEPT !.transcript = IF @ = <<>> THEN phrase ELSE @ \o <<" ">> \o phrase,
            !.segments = Append(@, [text |-> phrase, busy |-> s.processingCommand])]

\* the wake-word timer's callback
wakeWordTimeout(s, id) ==
  [s EXCEPT !.timers = @ \ {id}, !.wakeWordDetected = FALSE]

Init ==
  /\ browserSupportsSpeechRecognition \in BOOLEAN
  /\ mounted = FALSE
  /\ micOn = FALSE
  /\ transcript = <<>>
  /\ segments = <<>>
  /\ autoListening = TRUE
  /\ listening = FALSE
  /\ cryptoData = null
  /\ historicalPrices = <<>>
  /\ loading = FALSE
  /\ speaking = FALSE
  /\ error = null
  /\ wakeWordDetected = FALSE
  /\ lastInteraction = ""
  /\ wakeWordTimer = 0
  /\ processingCommand = FALSE
  /\ timers = {}
  /\ fetches = <<>>
  /\ utterance = <<>>
  /\ cycleUtterances = 0
  /\ log = <<>>
  /\ calls = <<>>

\* the component mounts: every effect runs once
Mount ==
  /\ ~mounted
  /\ Step([Cur EXCEPT !.mounted = TRUE], TRUE)

\* a transcript event
TranscriptEvent ==
  /\ mounted /\ micOn
  /\ \E phrase \in Phrases :
       /\ Len(transcript) + Len(phrase) + 1 <= MaxTranscriptLen
       /\ Step(appendPhrase(Cur, phrase), FALSE)

\* the user clicks the microphone button
ToggleListening ==
  /\ mounted /\ browserSupportsSpeechRecognition
  /\ Step(toggleListening(Cur), FALSE)

\* the ticker request of a fetch in flight completes or fails
TickerResponse ==
  \E i \in 1..Len(fetches) :
    /\ fetches[i].stage = "ticker"
    /\ \E outcome \in TickerOutcomes : Step(tickerResponse(Cur, i, outcome), FALSE)

\* the klines request of a fetch in flight completes or fails
KlinesResponse ==
  \E i \in 1..Len(fetches) :
    /\ fetches[i].stage = "klines"
    /\ \E outcome \in KlinesOutcomes : Step(klinesResponse(Cur, i, outcome), FALSE)

\* the speech sink finishes the utterance
SpeechEnd ==
  /\ utterance # <<>>
  /\ Step(onend(Cur), FALSE)

\* a pending wake-word timer expires
WakeWordTimeout ==
  \E id \in timers :
    Step(wakeWordTimeout(Cur, id), FALSE)

Next ==
  \/ Mount
  \/ TranscriptEvent
  \/ ToggleListening
  \/ TickerResponse
  \/ KlinesResponse
  \/ SpeechEnd
  \/ WakeWordTimeout

Spec == Init /\ [][Next]_vars

\* every fetch completes or fails, and the sink ends every utterance
FairSpec ==
  /\ Spec
  /\ WF_vars(TickerResponse)
  /\ WF_vars(KlinesResponse)
  /\ WF_vars(SpeechEnd)

----------------------------------------------------------------------------
(* fetchCryptoData on any alias text *)

\* alias texts handed to fetchCryptoData: known and unknown, with capitals
\* and with spaces around
Aliases ==
  { <<"d","o","g","e","c","o","i","n">>,
    <<"m","o","o","n","r","o","c","k","e","t">>,
    <<" ","B","i","t","c","o","i","n"," ">>,
    <<"D","O","G","E">>,
    <<"b","t","c"," ","u","s","d">>,
    <<"c","o","n","s","t","r","u","c","t","o","r">>,
    <<>> }

\* fetchCryptoData is called with alias, as the crypto branch of
\* processCommand calls it with a keyword
Query(alias) ==
  /\ mounted
  /\ listening
  /\ ~processingCommand
  /\ Step(fetchCryptoData(setProcessingCommand(Cur), alias), FALSE)

QueryAlias == \E alias \in Aliases : Query(alias)

AliasNext ==
  \/ Mount
  \/ QueryAlias
  \/ TickerResponse
  \/ KlinesResponse
  \/ SpeechEnd

AliasSpec == Init /\ [][AliasNext]_vars

----------------------------------------------------------------------------
(* The text the speech sink receives *)

digits == <<"0", "1", "2", "3", "4", "5", "6", "7", "8", "9">>

\* \d
isDigit(c) == \E i \in 1..Len(digits) : digits[i] = c

\* \s, for the white space the texts contain
isSpace(c) == c \in {" ", "\n"}

\* the decimal numeral of a natural number
RECURSIVE numeral(_)
numeral(n) ==
  IF n < 10 THEN <<digits[n + 1]>>
  ELSE numeral(n \div 10) \o <<digits[(n % 10) + 1]>>

\* Number.prototype.toFixed(2), of a number given in hundredths
toFixed(n) ==
  (IF n < 0 THEN <<"-">> ELSE <<>>) \o numeral(abs(n) \div 100) \o <<".">>
    \o <<digits[((abs(n) % 100) \div 10) + 1], digits[(abs(n) % 10) + 1]>>

\* the characters of the words and sentences of the narrative
chars(word) ==
  CASE
     word = "upward" ->
      <<"u","p","w","a","r","d">>
  [] word = "downward" ->
      <<"d","o","w","n","w","a","r","d">>
  [] word = "relatively stable" ->
      <<"r","e","l","a","t","i","v","e","l","y"," ","s","t","a","b","l","e">>
  [] word = "positive" ->
      <<"p","o","s","i","t","i","v","e">>
  [] word = "negative" ->
      <<"n","e","g","a","t","i","v","e">>
  [] word = "neutral" ->
      <<"n","e","u","t","r","a","l">>
  [] word = cautionAdvice ->
      <<"B","e"," ","c","a","u","t","i","o","u","s"," ","a","s"," ","t","h",
        "i","s"," ","s","i","g","n","i","f","i","c","a","n","t"," ","u","p",
        "w","a","r","d"," ","m","o","v","e","m","e","n","t"," ","m","i","g",
        "h","t"," ","b","e"," ","f","o","l","l","o","w","e","d"," ","b","y",
        " ","a"," ","c","o","r","r","e","c","t","i","o","n",".">>
  [] word = opportunityAdvice ->
      <<"T","h","i","s"," ","s","i","g","n","i","f","i","c","a","n","t"," ",
        "d","r","o","p"," ","m","i","g","h","t"," ","p","r","e","s","e","n",
        "t"," ","a"," ","b","u","y","i","n","g"," ","o","p","p","o","r","t",
        "u","n","i","t","y",","," ","b","u","t"," ","b","e"," ","a","w","a",
        "r","e"," ","t","h","a","t"," ","t","h","e"," ","d","o","w","n","t",
        "r","e","n","d"," ","m","i","g","h","t"," ","c","o","n","t","i","n",
        "u","e",".">>
  [] word = consolidationAdvice ->
      <<"T","h","e"," ","m","a","r","k","e","t"," ","a","p","p","e","a","r",
        "s"," ","t","o"," ","b","e"," ","c","o","n","s","o","l","i","d","a",
        "t","i","n","g","."," ","T","h","i","s"," ","m","i","g","h","t"," ",
        "b","e"," ","a"," ","p","e","r","i","o","d"," ","o","f"," ","a","c",
        "c","u","m","u","l","a","t","i","o","n"," ","b","e","f","o","r","e",
        " ","t","h","e"," ","n","e","x","t"," ","s","i","g","n","i","f","i",
        "c","a","n","t"," ","m","o","v","e",".">>
  [] word = strategyAdvice ->
      <<"C","o","n","s","i","d","e","r"," ","y","o","u","r"," ","i","n","v",
        "e","s","t","m","e","n","t"," ","s","t","r","a","t","e","g","y"," ",
        "b","a","s","e","d"," ","o","n"," ","y","o","u","r"," ","r","i","s",
        "k"," ","t","o","l","e","r","a","n","c","e"," ","a","n","d"," ","l",
        "o","n","g","-","t","e","r","m"," ","o","u","t","l","o","o","k",".">>

\* data.symbol.replace('USDT', '')
readableSymbol(symbol) ==
  CASE
     symbol = "ADAUSDT" -> <<"A","D","A">>
  [] symbol = "AVAXUSDT" -> <<"A","V","A","X">>
  [] symbol = "BNBUSDT" -> <<"B","N","B">>
  [] symbol = "BTCUSDT" -> <<"B","T","C">>
  [] symbol = "DOGEUSDT" -> <<"D","O","G","E">>
  [] symbol = "DOTUSDT" -> <<"D","O","T">>
  [] symbol = "ETHUSDT" -> <<"E","T","H">>
  [] symbol = "LINKUSDT" -> <<"L","I","N","K">>
  [] symbol = "LTCUSDT" -> <<"L","T","C">>
  [] symbol = "MATICUSDT" -> <<"M","A","T","I","C">>
  [] symbol = "SHIBUSDT" -> <<"S","H","I","B">>
  [] symbol = "SOLUSDT" -> <<"S","O","L">>
  [] symbol = "XRPUSDT" -> <<"X","R","P">>

\* the narrative of speakAnalysis, character by character
analysisText(data) ==
  <<"H","e","r","e","'","s"," ","m","y"," ","a","n","a","l","y","s","i","s",
      " ","f","o","r"," ">>
    \o readableSymbol(data.symbol)
    \o <<"."," ">>
    \o <<"T","h","e"," ","c","u","r","r","e","n","t"," ","p","r","i","c","e"," ",
      "i","s"," ","$">>
    \o toFixed(data.lastPrice)
    \o <<" ","U","S"," ","d","o","l","l","a","r","s","."," ">>
    \o <<"I","n"," ","t","h","e"," ","l","a","s","t"," ","2","4"," ","h","o","u",
      "r","s",","," ","t","h","e"," ","p","r","i","c","e"," ","h","a","s"," ",
      "c","h","a","n","g","e","d"," ","b","y"," ","$">>
    \o toFixed(data.priceChange)
    \o <<" ","d","o","l","l","a","r","s",","," ">>
    \o <<"w","h","i","c","h"," ","i","s"," ","a"," ">>
    \o toFixed(abs(data.priceChangePercent))
    \o <<"%"," ">>
    \o (IF data.priceChange > 0
        THEN <<"i","n","c","r","e","a","s","e">>
        ELSE <<"d","e","c","r","e","a","s","e">>)
    \o <<"."," ">>
    \o <<"T","h","e"," ","h","i","g","h","e","s","t"," ","p","r","i","c","e"," ",
      "r","e","a","c","h","e","d"," ","w","a","s"," ","$">>
    \o toFixed(data.highPrice)
    \o <<" ","d","o","l","l","a","r","s",","," ">>
    \o <<"w","h","i","l","e"," ","t","h","e"," ","l","o","w","e","s","t"," ","w",
      "a","s"," ","$">>
    \o toFixed(data.lowPrice)
    \o <<" ","d","o","l","l","a","r","s","."," ">>
    \o <<"T","h","e"," ","t","r","a","d","i","n","g"," ","v","o","l","u","m","e",
      " ","i","s"," ","a","p","p","r","o","x","i","m","a","t","e","l","y",
      " ">>
    \o toFixed((data.volume + 500000) \div 1000000)
    \o <<" ","m","i","l","l","i","o","n"," ","d","o","l","l","a","r","s",".",
      " ">>
    \o <<"O","v","e","r","a","l","l",","," ">>
    \o readableSymbol(data.symbol)
    \o <<" ","i","s"," ","s","h","o","w","i","n","g"," ","a"," ">>
    \o chars(trend(data))
    \o <<" ","t","r","e","n","d"," ","w","i","t","h"," ">>
    \o chars(sentiment(data))
    \o <<" ","m","o","m","e","n","t","u","m"," ","i","n"," ","t","h","e"," ","l",
      "a","s","t"," ","2","4"," ","h","o","u","r","s","."," ">>
    \o chars(generateAdvice(data.priceChangePercent, trend(data)))

\* the least index of a non-empty set of indices
least(indices) == CHOOSE i \in indices : \A j \in indices : i <= j

\* String.prototype.replace(/c/g, by), from index i on
RECURSIVE replaceEachFrom(_, _, _, _)
replaceEachFrom(text, i, c, by) ==
  Let({j \in i..Len(text) : text[j] = c}, LAMBDA found :
    IF found = {} THEN SubSeq(text, i, Len(text))
    ELSE SubSeq(text, i, least(found) - 1) \o by
           \o replaceEachFrom(text, least(found) + 1, c, by))

replaceEach(text, c, by) == replaceEachFrom(text, 1, c, by)

\* the last index of the run of digits that index i is in
digitsEnd(text, i) ==
  least({e \in i..Len(text) : e = Len(text) \/ ~isDigit(text[e + 1])})

\* /(\d+)\.(\d+)/ matches at index i: digits up to the end of their run,
\* a point and a digit
decimalAt(text, i) ==
  /\ isDigit(text[i])
  /\ digitsEnd(text, i) + 2 <= Len(text)
  /\ text[digitsEnd(text, i) + 1] = "."
  /\ isDigit(text[digitsEnd(text, i) + 2])

\* the replacement the callback returns for a match /(\d+)\.(\d+)/ inside
\* the text given to speakText
readDecimal(match, whole, decimal, text) ==
  IF \/ includes(match, <<"$">>)
     \/ includes(toLowerCase(text), <<"p","r","i","c","e">>)
     \/ includes(toLowerCase(text), <<"d","o","l","l","a","r">>)
  THEN whole \o <<" ","d","o","l","l","a","r","s"," ","a","n","d"," ">>
         \o decimal \o <<" ","c","e","n","t","s">>
  ELSE whole \o <<" ","p","o","i","n","t"," ">> \o decimal

\* String.prototype.replace(/(\d+)\.(\d+)/g, callback), from index i on:
\* the leftmost match, its replacement, and on from the end of the match
RECURSIVE replaceDecimalsFrom(_, _, _)
replaceDecimalsFrom(replaced, i, text) ==
  Let({j \in i..Len(replaced) : decimalAt(replaced, j)}, LAMBDA found :
    IF found = {} THEN SubSeq(replaced, i, Len(replaced))
    ELSE LET m == least(found)
             e == digitsEnd(replaced, m)
             f == digitsEnd(replaced, e + 2)
         IN SubSeq(replaced, i, m - 1)
              \o readDecimal(SubSeq(replaced, m, f), SubSeq(replaced, m, e),
                             SubSeq(replaced, e + 2, f), text)
              \o replaceDecimalsFrom(replaced, f + 1, text))

\* the last index of the run of white space that index i is in
spacesEnd(text, i) ==
  least({e \in i..Len(text) : e = Len(text) \/ ~isSpace(text[e + 1])})

\* String.prototype.replace(/\s+/g, ' '), from index i on
RECURSIVE collapseSpacesFrom(_, _)
collapseSpacesFrom(text, i) ==
  Let({j \in i..Len(text) :
         isSpace(text[j]) /\ (text[j] # " " \/ spacesEnd(text, j) > j)},
      LAMBDA found :
        IF found = {} THEN SubSeq(text, i, Len(text))
        ELSE SubSeq(text, i, least(found) - 1) \o <<" ">>
               \o collapseSpacesFrom(text, spacesEnd(text, least(found)) + 1))

\* formattedText of speakText: the chain of replacements on the text
formattedText(text) ==
  Let(replaceEach(replaceEach(text, "$",
                              <<" ","d","o","l","l","a","r","s"," ">>),
                  "%", <<" ","p","e","r","c","e","n","t"," ">>),
      LAMBDA replaced :
        collapseSpacesFrom(
          replaceEach(replaceDecimalsFrom(replaced, 1, text),
                      "\n", <<".", " ">>), 1))

\* the text speakText is called with for utterance u, for the utterances
\* whose text is spelled out
utteranceText(u) ==
  CASE u.kind = "analysis" -> analysisText(u.data[1])
    [] u.kind = "text" -> u.message[2]

\* the text of the utterance the sink renders
spokenText == formattedText(utteranceText(utterance[1]))

----------------------------------------------------------------------------
(* speakAnalysis on any snapshot *)

\* largest percent change of the snapshots analysed, in hundredths of a
\* percent
MaxPercent == 55

\* percent changes around the threshold of generateAdvice and beyond it, and
\* the one of the reference snapshot
LargePercents == {-613, -501, -500, -499, 77, 499, 500, 501, 613}

Percents == ((-MaxPercent)..MaxPercent) \cup LargePercents

\* absolute price changes of the snapshots analysed, in hundredths
PriceChanges == {-2, 0, 50000}

\* a snapshot as setCryptoData stores it, with the two changes given
snapshot(priceChange, priceChangePercent) ==
  [symbol |-> "BTCUSDT", priceChange |-> priceChange,
   priceChangePercent |-> priceChangePercent, lastPrice |-> 6500000,
   volume |-> 1500000000, highPrice |-> 6600000, lowPrice |-> 6400000]

\* speakAnalysis is called with a snapshot, as fetchCryptoData calls it
Analyse ==
  /\ mounted
  /\ listening
  /\ ~processingCommand
  /\ \E priceChange \in PriceChanges : \E priceChangePercent \in Percents :
       Step(speakAnalysis(setProcessingCommand(Cur),
                          snapshot(priceChange, priceChangePercent)), FALSE)

AnalysisNext ==
  \/ Mount
  \/ Analyse
  \/ SpeechEnd

AnalysisSpec == Init /\ [][AnalysisNext]_vars

----------------------------------------------------------------------------
(* speakText on any text *)

\* what precedes the number in the texts spoken
Prefixes ==
  {<<>>,
   <<"$">>,
   <<"c","o","s","t"," ","$">>,
   <<"p","r","i","c","e"," ">>,
   <<"D","o","l","l","a","r","s"," ">>,
   <<"u","p"," ">>}

\* the numbers in the texts spoken
Numbers ==
  {<<"1","2",".","5","0">>,
   <<"0",".","0","5">>,
   <<"3",".","7">>,
   <<"1","0","0">>}

\* what follows the number in the texts spoken
Suffixes ==
  {<<>>,
   <<"%">>,
   <<" ","n","o","w">>,
   <<"\n">>,
   <<" "," ","e","a","c","h">>}

Texts ==
  {prefix \o number \o suffix :
     prefix \in Prefixes, number \in Numbers, suffix \in Suffixes}

\* speakText is called with a text
Say ==
  /\ mounted
  /\ listening
  /\ ~processingCommand
  /\ \E text \in Texts :
       Step(speakText(setProcessingCommand(Cur),
                      Utterance("text", "", "", <<>>, <<"", text>>, <<>>, 0)),
            FALSE)

FormatNext ==
  \/ Mount
  \/ Say
  \/ SpeechEnd

FormatSpec == Init /\ [][FormatNext]_vars

----------------------------------------------------------------------------
(* Properties *)

\* the commands the last step dispatched
dispatchedCommands == {i \in 1..Len(log) : log[i].command # "none"}

\* C1: single-flight.  A step dispatches a command (starts a market fetch or
\* requests a command's utterance) only from a state where processingCommand
\* is clear; so at most one market fetch is in flight, and no utterance is
\* rendered while a fetch is in flight.
C1_SingleFlight ==
  /\ [][(\E i \in 1..Len(log') : log'[i].command # "none") => ~processingCommand]_vars
  /\ [](Len(fetches) <= 1)
  /\ [](fetches # <<>> => processingCommand /\ utterance = <<>>)
  /\ [](utterance # <<>> => processingCommand)

\* a second transcript event arrived during a fetch and started nothing
C1_Witness ==
  /\ Len(fetches) = 1
  /\ Len(segments) = 2
  /\ segments[2].busy
  /\ includesAny(toLowerCase(segments[2].text), cryptoKeywords)

\* C2: text that arrived while a command was processed or spoken never
\* dispatches a command: the keyword that selects a dispatched command occurs
\* in a phrase that arrived while the flag was clear.
C2_DroppedNotQueued ==
  \A i \in dispatchedCommands : log[i].fresh

\* C3: processingCommand goes from set to clear only in utterance.onend.
C3_ClearedOnlyByOnend ==
  [][(processingCommand /\ ~processingCommand') => SpeechEnd]_vars

\* the microphone was toggled off in the middle of a cycle and the flag is
\* still set
C3_Witness ==
  /\ processingCommand
  /\ ~listening
  /\ utterance # <<>>
  /\ utterance[1].topic # "stop"

\* C4: while the flag is set, either the market fetch is pending and nothing
\* has been spoken yet, or exactly one utterance has been requested and is
\* being rendered; and, every fetch completing and every utterance ending,
\* the flag is eventually cleared.
C4_OneUtteranceThenCleared ==
  /\ [](processingCommand =>
          IF fetches # <<>>
          THEN cycleUtterances = 0 /\ utterance = <<>>
          ELSE cycleUtterances = 1 /\ utterance # <<>>)
  /\ (processingCommand ~> ~processingCommand)

\* a cycle that ended in a snapshot-fetch failure is speaking its apology
C4_Witness ==
  /\ processingCommand
  /\ utterance # <<>>
  /\ utterance[1].kind = "apology"

\* C5 as stated: loading and speaking are never both true, and speaking is
\* true only while the sink holds an utterance.
C5_LoadingExcludesSpeaking ==
  /\ ~(loading /\ speaking)
  /\ (speaking => utterance # <<>>)

\* C5 as amended: the sink holds no utterance while loading is true, but the
\* speaking indicator is set together with loading when the fetch starts;
\* when loading is false, speaking is true exactly while the sink holds an
\* utterance.
C5_LoadingExcludesUtterance ==
  /\ loading => (speaking /\ utterance = <<>>)
  /\ ~loading => (speaking <=> utterance # <<>>)

\* a market fetch is pending with both indicators set
C5_Witness ==
  /\ loading
  /\ speaking
  /\ fetches # <<>>

\* the keywords of every conversational intent, in processCommand and in
\* handleConversation
conversationalKeywords ==
  conversationGate \o identityKeywords \o wellbeingKeywords \o
  capabilitiesKeywords \o timeKeywords \o weatherKeywords \o jokeKeywords \o
  thanksKeywords \o greetingKeywords \o helpKeywords \o farewellKeywords

conversationalCommands == {"conversation", "greeting", "thanks", "help"}

\* C6: a classified transcript that has a conversational keyword and a crypto
\* alias dispatches the conversational reply, never the crypto query.
C6_ConversationFirst ==
  \A i \in 1..Len(log) :
    (/\ includesAny(log[i].text, conversationalKeywords)
     /\ includesAny(log[i].text, cryptoKeywords))
    => log[i].command \in conversationalCommands

\* C7: every classified transcript yields a command (recording the wake word
\* counts as one), and a transcript that matches no keyword group yields the
\* reply for unrecognized queries.
C7_ClassificationTotal ==
  \A i \in 1..Len(log) :
    IF \/ includesAny(log[i].text, conversationalKeywords)
       \/ includesAny(log[i].text, cryptoKeywords)
       \/ includesAny(log[i].text, stopKeywords)
       \/ includesAny(log[i].text, wakeWord)
    THEN log[i].command # "none" \/ includesAny(log[i].text, wakeWord)
    ELSE log[i].command = "conversation" /\ log[i].reply = "unrecognized"

\* the klines request of a fetch whose snapshot is stored ends, either way
KlinesStep ==
  /\ fetches # <<>>
  /\ fetches[1].stage = "klines"
  /\ KlinesResponse

\* C8: when the history fetch ends, with the series or with a failure, the
\* analysis of the stored snapshot is the utterance spoken, and there is no
\* apology and no error banner.
C8_HistoryFailureSwallowed ==
  [][KlinesStep =>
       /\ utterance' # <<>>
       /\ utterance'[1].kind = "analysis"
       /\ utterance'[1].data = fetches[1].data
       /\ cycleUtterances' = 1
       /\ error' = null
       /\ cryptoData' = cryptoData]_vars

\* an analysis is spoken although no series was ever stored
C8_Witness ==
  /\ utterance # <<>>
  /\ utterance[1].kind = "analysis"
  /\ historicalPrices = <<>>
  /\ error = null

\* the result panel with the snapshot is rendered
resultPanelShown ==
  ~speaking /\ ~loading /\ cryptoData # null /\ lastInteraction = "crypto"

\* C9: a series shown in the result panel is the series of the snapshot's
\* symbol.
C9_SeriesOfSnapshot ==
  (resultPanelShown /\ historicalPrices # <<>>)
    => historicalPrices = formatPrices(klines(cryptoData[1].symbol))

\* the ticker request of a fetch fails: a non-2xx answer or a rejected fetch
TickerFailure ==
  \E i \in 1..Len(fetches) :
    /\ fetches[i].stage = "ticker"
    /\ \E outcome \in {"http", "network"} : Step(tickerResponse(Cur, i, outcome), FALSE)

\* C10: a snapshot-fetch failure leaves the stored snapshot and series as they
\* were, puts the failure message in the error banner, speaks one apology with
\* that message, and starts no history fetch.
C10_SnapshotFailure ==
  [][TickerFailure =>
       /\ cryptoData' = cryptoData
       /\ historicalPrices' = historicalPrices
       /\ error' \in {<<failedToFetchData(fetches[1].symbol)>>, <<networkError>>}
       /\ utterance' # <<>>
       /\ utterance'[1].kind = "apology"
       /\ utterance'[1].message = error'[1]
       /\ utterance'[1].keyword = fetches[1].keyword
       /\ cycleUtterances' = 1
       /\ fetches' = <<>>
       /\ ~loading']_vars

\* an apology is spoken under the error banner while the snapshot and the
\* series of an earlier query are still stored
C10_Witness ==
  /\ error # null
  /\ utterance # <<>>
  /\ utterance[1].kind = "apology"
  /\ cryptoData # null
  /\ historicalPrices # <<>>

\* position of the first call named name among the calls of the last step,
\* 0 when the step did not make it
callIndex(name) ==
  IF \E i \in 1..Len(calls) : calls[i] = name
  THEN CHOOSE i \in 1..Len(calls) :
         calls[i] = name /\ \A j \in 1..(i - 1) : calls[j] # name
  ELSE 0

\* the step issues the klines request
StartsHistoryFetch ==
  /\ fetches' # <<>>
  /\ fetches'[1].stage = "klines"
  /\ ~(fetches # <<>> /\ fetches[1].stage = "klines")

\* the step hands an analysis to the speech sink
SpeaksAnalysis ==
  /\ utterance' # <<>>
  /\ utterance'[1].kind = "analysis"
  /\ utterance' # utterance

\* C11: a crypto cycle is ordered.  The klines request is issued only by the
\* step in which the ticker request completed, after the snapshot is stored;
\* the narrative is composed only by the step in which the klines request
\* ended, and is composed before it is handed to the speech sink; nothing is
\* spoken while a request is pending.
C11_CycleOrdered ==
  /\ [][StartsHistoryFetch =>
          /\ fetches # <<>>
          /\ fetches[1].stage = "ticker"
          /\ fetches[1].data = <<>>
          /\ cryptoData' # null
          /\ cryptoData' = fetches'[1].data
          /\ 0 < callIndex("setCryptoData")'
          /\ callIndex("setCryptoData")' < callIndex("fetch klines")'
          /\ callIndex("analysis")' = 0
          /\ callIndex("speak")' = 0]_vars
  /\ [][(SpeaksAnalysis \/ callIndex("analysis")' # 0) =>
          /\ fetches # <<>>
          /\ fetches[1].stage = "klines"
          /\ fetches' = <<>>
          /\ utterance'[1].data = fetches[1].data
          /\ callIndex("fetch klines")' = 0
          /\ 0 < callIndex("analysis")'
          /\ callIndex("analysis")' < callIndex("speak")']_vars
  /\ [](fetches # <<>> => utterance = <<>> /\ callIndex("speak") = 0)

\* the klines request has delivered the series and the analysis is spoken
C11_Witness ==
  /\ utterance # <<>>
  /\ utterance[1].kind = "analysis"
  /\ historicalPrices # <<>>
  /\ calls = <<"analysis", "speak">>

\* the step hands the confirmation of the stop command to the speech sink
SpeaksStopConfirmation ==
  /\ utterance' # <<>>
  /\ utterance'[1].topic = "stop"
  /\ utterance' # utterance

\* C12: the stop command first speaks its confirmation while the input
\* stream is still on, and the stream is stopped when that utterance ends.
C12_StopAfterConfirmation ==
  /\ [][SpeaksStopConfirmation =>
          /\ listening'
          /\ micOn'
          /\ callIndex("stopListening")' = 0]_vars
  /\ [][(utterance # <<>> /\ utterance[1].topic = "stop" /\ listening /\ SpeechEnd) =>
          /\ ~listening'
          /\ ~micOn']_vars

\* how many times the last step made the call named name
callCount(name) == Cardinality({i \in 1..Len(calls) : calls[i] = name})

\* C13: the step that handles a stop command calls stopListening exactly
\* once, the calls of the effect cleanups it triggers included.
C13_StopCalledOnce ==
  (\E i \in dispatchedCommands : log[i].command = "stop")
    => callCount("stopListening") = 1

\* the ticker request of a fetch completes with a 2xx answer
TickerSuccess ==
  \E i \in 1..Len(fetches) :
    /\ fetches[i].stage = "ticker"
    /\ Step(tickerResponse(Cur, i, "ok"), FALSE)

\* C14: stopping the input stream does not cancel the market fetch in
\* flight.  The toggle leaves the fetch pending; a ticker response that
\* arrives while listening is false stores its snapshot and goes on to the
\* klines request; a klines response that arrives while listening is false
\* ends in the spoken analysis of that snapshot.  And a step dispatches a
\* command only from a state where listening is true and the stream is on.
C14_StopDoesNotCancelFetch ==
  /\ [][ToggleListening => (fetches' = fetches /\ utterance' = utterance)]_vars
  /\ [][(TickerSuccess /\ ~listening) =>
          /\ cryptoData' = <<[symbol |-> fetches[1].symbol]
                               @@ ticker24hr(fetches[1].symbol)>>
          /\ fetches' # <<>>
          /\ fetches'[1].stage = "klines"]_vars
  /\ [][(KlinesStep /\ ~listening) =>
          /\ utterance' # <<>>
          /\ utterance'[1].kind = "analysis"
          /\ utterance'[1].data = cryptoData
          /\ cryptoData' = cryptoData
          /\ fetches' = <<>>]_vars
  /\ [][(\E i \in 1..Len(log') : log'[i].command # "none")
          => (listening /\ micOn)]_vars

\* the analysis of a fetch that completed after the stream was stopped
C14_Witness ==
  /\ ~listening
  /\ ~micOn
  /\ utterance # <<>>
  /\ utterance[1].kind = "analysis"
  /\ cryptoData = utterance[1].data

\* C15: toggleListening.  From listening it stops the input stream and sets
\* listening false; from not listening it starts the stream, sets listening
\* true and clears the transcript, and the step classifies nothing.
C15_ToggleListening ==
  [][ToggleListening =>
       IF listening
       THEN /\ ~listening'
            /\ ~micOn'
            /\ callIndex("stopListening")' # 0
            /\ callIndex("startListening")' = 0
       ELSE /\ listening'
            /\ micOn'
            /\ callIndex("startListening")' # 0
            /\ transcript' = <<>>
            /\ segments' = <<>>
            /\ log' = <<>>]_vars

\* the microphone was toggled on again while the confirmation of the stop
\* command is spoken
C15_Witness ==
  /\ listening
  /\ micOn
  /\ transcript = <<>>
  /\ callIndex("startListening") # 0
  /\ utterance # <<>>
  /\ utterance[1].topic = "stop"

\* C16: on a host without speech recognition listening is never started:
\* listening stays false, the stream stays off, and no command is dispatched,
\* no fetch started and no utterance requested.
C16_UnsupportedHostIdle ==
  ~browserSupportsSpeechRecognition =>
    /\ ~listening
    /\ ~micOn
    /\ transcript = <<>>
    /\ ~processingCommand
    /\ fetches = <<>>
    /\ utterance = <<>>
    /\ ~loading
    /\ ~speaking
    /\ log = <<>>
    /\ calls = <<>>

\* the component is mounted on a host without speech recognition
C16_Witness ==
  /\ mounted
  /\ ~browserSupportsSpeechRecognition

\* the step runs processCommand on a transcript with the wake word
DetectsWakeWord ==
  \E i \in 1..Len(log') : includesAny(log'[i].text, wakeWord)

\* C17: at most one wake-word timer is pending, and it is the one armed
\* last; every detection of the wake word cancels the timer that is pending
\* (unless it has just fired) before it arms the new one, so no older timer
\* is left to fire.
C17_OneWakeWordTimer ==
  /\ [](Cardinality(timers) <= 1)
  /\ [](timers \subseteq {wakeWordTimer})
  /\ [][DetectsWakeWord =>
          /\ wakeWordDetected'
          /\ timers' = {wakeWordTimer'}
          /\ callIndex("setTimeout")' # 0
          /\ ((timers # {} /\ ~WakeWordTimeout) =>
                /\ callIndex("clearTimeout pending")' # 0
                /\ callIndex("clearTimeout pending")' < callIndex("setTimeout")')
          /\ \A j, k \in 1..Len(calls') :
                (j < k /\ calls'[j] = "setTimeout" /\ calls'[k] = "setTimeout")
                  => \E m \in (j + 1)..(k - 1) : calls'[m] = "clearTimeout pending"]_vars
  /\ [][callIndex("setTimeout")' # 0 => DetectsWakeWord]_vars

\* the wake word was detected while a timer was pending: that timer was
\* cancelled and a new one is pending
C17_Witness ==
  /\ callIndex("clearTimeout pending") # 0
  /\ callIndex("setTimeout") # 0
  /\ timers = {wakeWordTimer}
  /\ wakeWordDetected

\* the wake-word states compared: detected or not, no timer armed yet or a
\* timer pending
WakeWordStates ==
  {<<detected, handle>> : detected \in BOOLEAN, handle \in {0, 1}}

\* the state s with the wake-word state w
withWakeWordState(s, w) ==
  [s EXCEPT !.wakeWordDetected = w[1],
            !.wakeWordTimer = w[2],
            !.timers = IF w[2] = 0 THEN {} ELSE {w[2]}]

isTimerCall(name) ==
  name \in {"setTimeout", "clearTimeout pending", "clearTimeout expired"}

\* what the transcript event with phrase does in state s: whether the
\* command effect accepted it, the commands dispatched, and the state it
\* leaves, apart from the wake-word state
response(s, phrase) ==
  Let(runEffects(s, appendPhrase(s, phrase), FALSE), LAMBDA r :
    [accepted |-> r.log # <<>>,
     dispatched |-> SelectSeq(r.log, LAMBDA e : e.command # "none"),
     calls |-> SelectSeq(r.calls, LAMBDA c : ~isTimerCall(c)),
     state |-> [r EXCEPT !.wakeWordDetected = FALSE, !.wakeWordTimer = 0,
                         !.timers = {}, !.log = <<>>, !.calls = <<>>]])

\* C18: the wake-word state does not gate commands.  In every state where a
\* transcript event can arrive, and for every phrase, the event is accepted
\* or ignored, dispatches the same commands and leaves the same state
\* (wake-word state apart) whatever wakeWordDetected and the timer are.
C18_WakeWordDoesNotGate ==
  (mounted /\ micOn) =>
    \A phrase \in Phrases :
      Len(transcript) + Len(phrase) + 1 <= MaxTranscriptLen =>
        \A w \in WakeWordStates :
          response(withWakeWordState(Cur, w), phrase) = response(Cur, phrase)

\* a crypto query was dispatched although the wake word was never heard
C18_Witness ==
  /\ ~wakeWordDetected
  /\ wakeWordTimer = 0
  /\ \E i \in dispatchedCommands : log[i].command = "crypto"

\* the alias is one of the keys of symbolMap, capitals and the spaces
\* around it apart
resolverKnows(alias) ==
  \E i \in 1..Len(symbolMap) : symbolMap[i][1] = trim(toLowerCase(alias))

\* C19: an alias the resolver does not know resolves to null, and
\* fetchCryptoData then issues no request, leaves the stored snapshot and
\* series unchanged, and speaks one apology that names the input; an alias it
\* knows resolves to its symbol and the request for that symbol is issued.
\* 'dogecoin' resolves to DOGEUSDT and 'moonrocket' to null.
C19_UnknownAlias ==
  /\ [](/\ normalizeSymbol(<<"d","o","g","e","c","o","i","n">>) = <<"DOGEUSDT">>
        /\ normalizeSymbol(<<"m","o","o","n","r","o","c","k","e","t">>) = null)
  /\ [][\A alias \in Aliases :
          (Query(alias) /\ ~resolverKnows(alias)) =>
            /\ normalizeSymbol(alias) = null
            /\ fetches' = <<>>
            /\ callIndex("fetch ticker")' = 0
            /\ cryptoData' = cryptoData
            /\ historicalPrices' = historicalPrices
            /\ error' = <<couldNotRecognize(alias)>>
            /\ utterance' # <<>>
            /\ utterance'[1].kind = "apology"
            /\ utterance'[1].keyword = alias
            /\ utterance'[1].message = couldNotRecognize(alias)
            /\ cycleUtterances' = 1
            /\ ~loading']_vars
  /\ [][\A alias \in Aliases :
          (Query(alias) /\ resolverKnows(alias)) =>
            /\ Len(fetches') = 1
            /\ fetches'[1].symbol = normalizeSymbol(alias)[1]
            /\ fetches'[1].stage = "ticker"
            /\ callIndex("fetch ticker")' # 0
            /\ utterance' = <<>>]_vars

\* C20 as stated: trend and sentiment of a spoken analysis are a function of
\* the percent change p only: stable and neutral iff |p| < 0.5, otherwise
\* upward and positive iff p > 0, downward and negative iff p < 0.
C20_TrendBySignOfPercent ==
  (utterance # <<>> /\ utterance[1].kind = "analysis") =>
    LET p == utterance[1].data[1].priceChangePercent
    IN utterance[1].message[2] =
         IF -50 < p /\ p < 50 THEN <<"relatively stable", "neutral">>
         ELSE IF p > 0 THEN <<"upward", "positive">>
         ELSE <<"downward", "negative">>

\* C20 as amended: stable and neutral iff |p| < 0.5; otherwise the sign is
\* that of the absolute price change: upward and positive iff priceChange > 0,
\* downward and negative iff priceChange <= 0.  p = 0.5 exactly is not stable.
C20_TrendBySignOfChange ==
  (utterance # <<>> /\ utterance[1].kind = "analysis") =>
    LET p == utterance[1].data[1].priceChangePercent
        change == utterance[1].data[1].priceChange
    IN utterance[1].message[2] =
         IF -50 < p /\ p < 50 THEN <<"relatively stable", "neutral">>
         ELSE IF change > 0 THEN <<"upward", "positive">>
         ELSE <<"downward", "negative">>

\* the analysis of a snapshot whose percent change is exactly 0.5 is spoken,
\* and it is not stable
C20_Witness ==
  /\ utterance # <<>>
  /\ utterance[1].kind = "analysis"
  /\ utterance[1].data[1].priceChangePercent = 50
  /\ utterance[1].message[2] = <<"upward", "positive">>

\* C21 as stated: the advice is the strong-movement sentence iff |p| > 5 (the
\* gain wording iff p > 0, the loss wording otherwise), else the consolidation
\* sentence iff the trend is "relatively stable", else the risk-tolerance
\* sentence; p = 5.0 exactly is not a strong movement; and the direction of
\* the advice agrees with the trend spoken in the same narrative.
C21_AdviceAgreesWithTrend ==
  (utterance # <<>> /\ utterance[1].kind = "analysis") =>
    LET p == utterance[1].data[1].priceChangePercent
        trendSpoken == utterance[1].message[2][1]
        advice == utterance[1].message[3]
    IN /\ advice =
            IF p > 500 \/ p < -500
            THEN IF p > 0 THEN cautionAdvice ELSE opportunityAdvice
            ELSE IF trendSpoken = "relatively stable" THEN consolidationAdvice
            ELSE strategyAdvice
       /\ p \in {500, -500} => advice \notin {cautionAdvice, opportunityAdvice}
       /\ advice = cautionAdvice => trendSpoken = "upward"
       /\ advice = opportunityAdvice => trendSpoken = "downward"

\* C21 as amended: the same selection of the sentence; the direction of the
\* advice is the sign of p while the trend spoken follows the sign of the
\* absolute price change, so the two agree exactly when the two signs agree.
C21_AdviceBySignOfPercent ==
  (utterance # <<>> /\ utterance[1].kind = "analysis") =>
    LET p == utterance[1].data[1].priceChangePercent
        change == utterance[1].data[1].priceChange
        trendSpoken == utterance[1].message[2][1]
        advice == utterance[1].message[3]
    IN /\ advice =
            IF p > 500 \/ p < -500
            THEN IF p > 0 THEN cautionAdvice ELSE opportunityAdvice
            ELSE IF trendSpoken = "relatively stable" THEN consolidationAdvice
            ELSE strategyAdvice
       /\ p \in {500, -500} => advice \notin {cautionAdvice, opportunityAdvice}
       /\ advice = cautionAdvice => (trendSpoken = "upward" <=> change > 0)
       /\ advice = opportunityAdvice =>
            (trendSpoken = "downward" <=> change <= 0)

\* the analysis of a snapshot whose percent change is exactly 5.0 is spoken
\* with the risk-tolerance sentence
C21_Witness ==
  /\ utterance # <<>>
  /\ utterance[1].kind = "analysis"
  /\ utterance[1].data[1].priceChangePercent = 500
  /\ utterance[1].message[3] = strategyAdvice

\* C22: for the snapshot lastPrice 65000.00, priceChange 500.00,
\* priceChangePercent 0.77, high 66000.00, low 64000.00, volume 15000000, the
\* text handed to the speech sink states the current price as "65000 dollars
\* and 00 cents", states a 0.77 percent increase, the percentage not being
\* rendered as a currency amount, the trend "upward", the sentiment
\* "positive" and the risk-tolerance advice.
C22_ReferenceNarrative ==
  (/\ utterance # <<>>
   /\ utterance[1].kind = "analysis"
   /\ utterance[1].data[1] = snapshot(50000, 77)) =>
    /\ includes(spokenText,
          <<"p","r","i","c","e"," ","i","s"," ","d","o","l","l","a","r","s",
            " ","6","5","0","0","0"," ","d","o","l","l","a","r","s"," ","a",
            "n","d"," ","0","0"," ","c","e","n","t","s">>)
    /\ \/ includes(spokenText,
             <<"0",".","7","7"," ","p","e","r","c","e","n","t"," ","i","n",
               "c","r","e","a","s","e">>)
       \/ includes(spokenText,
             <<"0"," ","p","o","i","n","t"," ","7","7"," ","p","e","r","c",
               "e","n","t"," ","i","n","c","r","e","a","s","e">>)
    /\ ~includes(spokenText,
           <<"0"," ","d","o","l","l","a","r","s"," ","a","n","d"," ","7","7",
             " ","c","e","n","t","s"," ","p","e","r","c","e","n","t">>)
    /\ includes(spokenText,
          <<"s","h","o","w","i","n","g"," ","a"," ","u","p","w","a","r","d",
            " ","t","r","e","n","d"," ","w","i","t","h"," ","p","o","s","i",
            "t","i","v","e"," ","m","o","m","e","n","t","u","m">>)
    /\ includes(spokenText, chars(strategyAdvice))

\* C23: in a text whose only currency context is a "$" directly before a
\* decimal, with neither "price" nor "dollar" in it, the decimal is rendered
\* "<int> dollars and <int> cents"; in a text with no currency context a
\* decimal is rendered "<int> point <int>".
C23_DollarSignMakesCurrency ==
  (utterance # <<>> /\ utterance[1].kind = "text") =>
    LET text == utterance[1].message[2]
        currencyWord ==
          \/ includes(toLowerCase(text), <<"p","r","i","c","e">>)
          \/ includes(toLowerCase(text), <<"d","o","l","l","a","r">>)
    IN \A i \in 1..Len(text) :
         (decimalAt(text, i) /\ (i = 1 \/ ~isDigit(text[i - 1]))) =>
           LET e == digitsEnd(text, i)
               f == digitsEnd(text, e + 2)
               whole == SubSeq(text, i, e)
               decimal == SubSeq(text, e + 2, f)
           IN /\ (i > 1 /\ text[i - 1] = "$" /\ ~currencyWord) =>
                   includes(spokenText,
                     whole \o <<" ","d","o","l","l","a","r","s"," ","a","n","d"," ">>
                       \o decimal \o <<" ","c","e","n","t","s">>)
              /\ (~includes(text, <<"$">>) /\ ~currencyWord) =>
                   includes(spokenText,
                     whole \o <<" ","p","o","i","n","t"," ">> \o decimal)

\* the index of the first occurrence of part in text
indexOf(text, part) ==
  least({i \in 1..(Len(text) - Len(part) + 1) :
           SubSeq(text, i, i + Len(part) - 1) = part})

\* the commands of this step that went to the crypto query
cryptoCommands == {i \in 1..Len(log) : log[i].command = "crypto"}

\* C24: every keyword the command cascade passes to the crypto query is a key
\* of the resolver and resolves to a symbol, so no transcript event reaches
\* the apology for an unrecognised alias; the keyword passed is the first
\* entry of cryptoKeywords, in the order of the list, that occurs in the
\* transcript, wherever in the transcript it occurs.
C24_KeywordResolves ==
  /\ \A i \in cryptoCommands :
       /\ \A k \in 1..Len(cryptoKeywords) :
            /\ resolverKnows(cryptoKeywords[k])
            /\ normalizeSymbol(cryptoKeywords[k]) # null
       /\ resolverKnows(log[i].trigger)
       /\ normalizeSymbol(log[i].trigger) # null
       /\ log[i].trigger =
            cryptoKeywords[least({k \in 1..Len(cryptoKeywords) :
                                   includes(log[i].text, cryptoKeywords[k])})]
       /\ \E f \in 1..Len(fetches) :
            /\ fetches[f].keyword = log[i].trigger
            /\ <<fetches[f].symbol>> = normalizeSymbol(log[i].trigger)
  /\ \A e \in 1..Len(error) :
       error[e][1] # "Could not recognize cryptocurrency:"
  /\ \A u \in 1..Len(utterance) :
       utterance[u].kind = "apology" =>
         utterance[u].message[1] # "Could not recognize cryptocurrency:"

\* a command went to the crypto query with a keyword that occurs in the
\* transcript after another keyword of the list
C24_Witness ==
  \E i \in cryptoCommands : \E k \in 1..Len(cryptoKeywords) :
    /\ includes(log[i].text, cryptoKeywords[k])
    /\ indexOf(log[i].text, cryptoKeywords[k]) < indexOf(log[i].text, log[i].trigger)

\* C25: when the wake-word timer expires, wakeWordDetected is false and no
\* timer is pending, and the flag stays false until a transcript event whose
\* transcript, as the command effect reads it, contains the wake word: a
\* transcript that was never reset because it contained only the wake word
\* does not arm the timer again on its own.
C25_ExpiryClearsWakeWord ==
  [][/\ WakeWordTimeout => (~wakeWordDetected' /\ timers' = {})
     /\ (~wakeWordDetected /\ wakeWordDetected') =>
          /\ TranscriptEvent
          /\ \E i \in 1..Len(log') : includesAny(log'[i].text, wakeWord)]_vars

====
